---- MODULE Spec2Model ----
(***************************************************************************)
(* Vehicle ledger and billing of the parking-lot utility (src/main.py).    *)
(*                                                                         *)
(* The program is a Streamlit script: every user interaction (submitting   *)
(* the entry form, editing the exit-token box, editing the exit-time box,  *)
(* uploading an image) re-executes the whole script top to bottom.  One    *)
(* action of this model is one such execution: load_data, the detection of *)
(* the uploaded image, the entry form's handler, the exit handling and the *)
(* analytics.  What survives between executions is the file                *)
(* data/vehicles.csv and the widgets' values.                              *)
(*                                                                         *)
(* Values.  A cell of a table, a text typed into a widget and a text       *)
(* stored in the file are records [k, n, s]:                               *)
(*   texts (Python str):                                                   *)
(*     "txt"   the literal text s                                          *)
(*     "dec"   the decimal digits of the integer n        ("1")            *)
(*     "flt"   the text of the float n.0                  ("1.0")          *)
(*     "dmy"   minute n written "%d-%m-%Y %H:%M"                           *)
(*     "iso"   minute n written as str(Timestamp), "%Y-%m-%d %H:%M:%S"     *)
(*   non-texts:                                                            *)
(*     "int"   numpy int64 n        "float"  numpy float64 n.0             *)
(*     "nan"   float NaN            "ts"     pandas Timestamp of minute n  *)
(*     "none"  Python None / a widget that is not rendered                 *)
(* Time is counted in whole minutes (the wire format has no seconds).      *)
(* Money is counted in hundredths of a rupee; the rates are whole rupees.  *)
(*                                                                         *)
(* Left out: the accuracy section (lines 48-69 and 164-170), which reads   *)
(* its own file and changes nothing, and the drawing of the tables.        *)
(***************************************************************************)
EXTENDS Integers, Sequences, FiniteSets, TLC

VARIABLES
    csv,             \* data/vehicles.csv: sequence of rows of texts
    vehicles,        \* the global DataFrame `vehicles` at the end of the run
    rates,           \* the global DataFrame `rates`
    layout,          \* the global DataFrame `layout`
    uploaded_image,  \* the file_uploader widget
    detected_type,   \* the global `detected_type`
    exit_token,      \* the "Enter Token for Exit:" widget
    exit_time,       \* the "Exit Time" widget (NONE while not rendered)
    out              \* what the last run did and showed

vars == <<csv, vehicles, rates, layout, uploaded_image, detected_type,
          exit_token, exit_time, out>>

\* ------------------------------------------------------------------ bounds

MaxRows == 2
MaxDur == 150

\* ------------------------------------------------------------------ values

TXT(s)   == [k |-> "txt",   n |-> 0, s |-> s]
DEC(n)   == [k |-> "dec",   n |-> n, s |-> ""]
FLT(n)   == [k |-> "flt",   n |-> n, s |-> ""]
DMY(n)   == [k |-> "dmy",   n |-> n, s |-> ""]
ISO(n)   == [k |-> "iso",   n |-> n, s |-> ""]
INT(n)   == [k |-> "int",   n |-> n, s |-> ""]
FLOAT(n) == [k |-> "float", n |-> n, s |-> ""]
TS(n)    == [k |-> "ts",    n |-> n, s |-> ""]
NAN      == [k |-> "nan",   n |-> 0, s |-> ""]
NONE     == [k |-> "none",  n |-> 0, s |-> ""]

IsText(c) == c.k \in {"txt", "dec", "flt", "dmy", "iso"}

Columns == {"Token", "License", "Type", "EntryTime", "ExitTime", "Slot"}

\* Python's str(x), as Series.astype(str) applies it to each cell.
astype_str(c) ==
    CASE IsText(c)     -> c
      [] c.k = "int"   -> DEC(c.n)
      [] c.k = "float" -> FLT(c.n)
      [] c.k = "nan"   -> TXT("nan")
      [] c.k = "ts"    -> ISO(c.n)
      [] OTHER         -> TXT("None")

\* ---------------------------------------------------------------- the file

\* pandas.read_csv: the texts, among those of this model, that it reads as a
\* missing value.
IsNA(t) == t \in {TXT(""), TXT("nan")}

\* read_csv infers one dtype per column: int64 when every text is an integer
\* literal, float64 when every text is a number or missing, object otherwise.
ColumnDtype(file, col) ==
    LET texts == {file[i][col] : i \in 1..Len(file)}
    IN  IF \A t \in texts : t.k = "dec" THEN "int64"
        ELSE IF \A t \in texts : t.k \in {"dec", "flt"} \/ IsNA(t) THEN "float64"
        ELSE "object"

read_cell(dtype, t) ==
    CASE IsNA(t)           -> NAN
      [] dtype = "int64"   -> INT(t.n)
      [] dtype = "float64" -> FLOAT(t.n)
      [] OTHER             -> t

ReadAs(file, dtypes) ==
    [i \in 1..Len(file) |->
        [col \in Columns |-> read_cell(dtypes[col], file[i][col])]]

read_csv(file) == ReadAs(file, [col \in Columns |-> ColumnDtype(file, col)])

\* DataFrame.to_csv(index=False): each cell by its text, a missing value as
\* the empty field.
write_cell(c) == IF c.k = "nan" THEN TXT("") ELSE astype_str(c)

to_csv(frame) ==
    [i \in 1..Len(frame) |-> [col \in Columns |-> write_cell(frame[i][col])]]

\* ------------------------------------------------------------ detection

\* A label of the classifier is a sequence of characters.
lower_char(ch) ==
    CASE ch = "M" -> "m"
      [] ch = "T" -> "t"
      [] ch = "E" -> "e"
      [] OTHER    -> ch

lower(label) == [i \in 1..Len(label) |-> lower_char(label[i])]

\* Python's `sub in s` on strings.
Contains(sub, s) ==
    \E i \in 0..(Len(s) - Len(sub)) :
        \A j \in 1..Len(sub) : s[i + j] = sub[j]

L_car        == <<"c", "a", "r">>
L_motorcycle == <<"m", "o", "t", "o", "r", "c", "y", "c", "l", "e">>
L_truck      == <<"t", "r", "u", "c", "k">>

RECURSIVE ScanPredictions(_, _)
ScanPredictions(preds, i) ==
    IF i > Len(preds) THEN TXT("Unknown")
    ELSE IF Contains(L_car, lower(preds[i])) THEN TXT("Car")
    ELSE IF Contains(L_motorcycle, lower(preds[i])) THEN TXT("Bike")
    ELSE IF Contains(L_truck, lower(preds[i])) THEN TXT("Truck")
    ELSE ScanPredictions(preds, i + 1)

\* An uploaded image is what the classifier makes of it: an exception
\* (ok = FALSE) or the labels of its top three predictions.
detect_vehicle_type(image_file) ==
    IF image_file.ok THEN ScanPredictions(image_file.top3, 1)
    ELSE TXT("Error: e")

\* ---------------------------------------------------------------- billing

\* pd.to_datetime(x, format="%d-%m-%Y %H:%M"): a Timestamp, NaT for a missing
\* value, or ValueError (k = "raise") for a text that is not in the format.
to_datetime(x) ==
    CASE x.k = "dmy"             -> TS(x.n)
      [] x.k = "ts"              -> x
      [] x.k = "nan" \/ x = TXT("") -> [k |-> "nat", n |-> 0, s |-> ""]
      [] OTHER                   -> [k |-> "raise", n |-> 0, s |-> "ValueError"]

\* round(a / b) for b > 0, ties to the even neighbour (Python's and numpy's
\* round).
RoundHalfEven(a, b) ==
    LET q == a \div b
        r == a % b
    IN  IF 2 * r < b THEN q
        ELSE IF 2 * r > b THEN q + 1
        ELSE IF q % 2 = 0 THEN q ELSE q + 1

\* rates[rates['Type'] == vehicle_type]['RatePerHour'].values
RateValues(vehicle_type) ==
    LET hit == SelectSeq(rates, LAMBDA r : r.Type = vehicle_type)
    IN  [i \in 1..Len(hit) |-> hit[i].RatePerHour]

\* Variant of line 75: duration = entry_time - exit_time.
RentOfReversed(entry, values, exit_ts) ==
    IF entry.k = "raise"
        THEN [raised |-> "ValueError", rent |-> 0, nan |-> FALSE]
    ELSE IF Len(values) = 0
        THEN [raised |-> "IndexError", rent |-> 0, nan |-> FALSE]
    ELSE IF entry.k = "nat"
        THEN [raised |-> "", rent |-> 0, nan |-> TRUE]
    ELSE [raised |-> "",
          rent   |-> RoundHalfEven((entry.n - exit_ts.n) * 60 * values[1] * 100,
                                   3600),
          nan    |-> FALSE]

\* Lines 75-85, with the parsed entry time and the rates found.
RentOf(entry, values, exit_ts) ==
    IF entry.k = "raise"
        THEN [raised |-> "ValueError", rent |-> 0, nan |-> FALSE]
    ELSE IF Len(values) = 0
        THEN [raised |-> "IndexError", rent |-> 0, nan |-> FALSE]
    ELSE IF entry.k = "nat"
        THEN [raised |-> "", rent |-> 0, nan |-> TRUE]
    \* hours_parked = seconds / 3600; rent = hours_parked * rate;
    \* round(rent, 2)
    ELSE [raised |-> "",
          rent   |-> RoundHalfEven((exit_ts.n - entry.n) * 60 * values[1] * 100,
                                   3600),
          nan    |-> FALSE]

\* calculate_rent: exit_ts, its argument exit_time, is a Timestamp.  The
\* result is the exception raised ("" for none) and the rent in hundredths
\* (nan: the float NaN).
calculate_rent(vehicle_type, entry_time, exit_ts) ==
    RentOf(to_datetime(entry_time), RateValues(vehicle_type), exit_ts)

\* ------------------------------------------------------------ the script

NoImage == [present |-> FALSE, ok |-> FALSE, top3 |-> <<>>]

\* Lines 94-97: detected_type stays None without an upload.
Detected(image) ==
    IF image.present THEN detect_vehicle_type(image) ELSE NONE

\* Line 104: the options of the "Vehicle Type" selectbox.
TypeOptions(detected) ==
    {IF detected = NONE THEN TXT("Unknown") ELSE detected}
        \cup {rates[i].Type : i \in 1..Len(rates)}

\* Lines 110-111: the one-row frame of the submitted form.
new_entry(form) ==
    [Token     |-> form.token,
     License   |-> form.license_number,
     Type      |-> form.vehicle_type,
     EntryTime |-> form.entry_time,
     ExitTime  |-> TXT(""),
     Slot      |-> form.slot]

\* Lines 109-114: the frame and the file after the form's handler.
add_vehicle(frame, file, submitted, form) ==
    IF submitted
        THEN LET added == Append(frame, new_entry(form))
             IN  [vehicles |-> added, csv |-> to_csv(added), added |-> TRUE]
        ELSE [vehicles |-> frame, csv |-> file, added |-> FALSE]

\* vehicles['Token'].astype(str) == exit_token
TokenMask(frame, token) ==
    {i \in 1..Len(frame) : astype_str(frame[i].Token) = token}

First(mask) == CHOOSE i \in mask : \A j \in mask : i <= j

\* Variants of line 140: the stamp on the first matching row alone
\* (.iloc[0]), and on every row (no mask).
StampFirstOnly(frame, mask, exit_ts) ==
    [i \in 1..Len(frame) |->
        IF i = First(mask) THEN [frame[i] EXCEPT !.ExitTime = exit_ts]
        ELSE frame[i]]

StampEveryRow(frame, mask, exit_ts) ==
    [i \in 1..Len(frame) |-> [frame[i] EXCEPT !.ExitTime = exit_ts]]

\* Line 140: vehicles.loc[mask, 'ExitTime'] = exit_time.  The column takes
\* the Timestamp beside its texts and missing values (dtype object).
StampExit(frame, mask, exit_ts) ==
    [i \in 1..Len(frame) |->
        IF i \in mask THEN [frame[i] EXCEPT !.ExitTime = exit_ts] ELSE frame[i]]

Outcome(frame, file, exit, err, rent, nan) ==
    [vehicles |-> frame, csv |-> file, exit |-> exit, err |-> err,
     rent |-> rent, nan |-> nan]

\* Lines 137-141, after exit_time was parsed: the rent, then the stamp and the
\* rewrite of the file.
BillAndStamp(frame, file, mask, exit_ts, bill) ==
    IF bill.raised # ""
        THEN Outcome(frame, file, "error", bill.raised, 0, FALSE)
        ELSE Outcome(StampExit(frame, mask, exit_ts),
                     to_csv(StampExit(frame, mask, exit_ts)),
                     "done", "", bill.rent, bill.nan)

\* Lines 127-144: the first matching row gives the type and the entry time.
FoundVehicle(frame, file, mask, first, exit_ts) ==
    IF exit_ts.k \notin {"ts", "nat"}
        THEN Outcome(frame, file, "error", "ValueError", 0, FALSE)
        ELSE BillAndStamp(frame, file, mask, exit_ts,
                          calculate_rent(first.Type, first.EntryTime, exit_ts))

\* Variant of lines 145-146: the file rewritten on the not-found branch too.
LookUpSaving(frame, file, mask, typed) ==
    IF mask = {} THEN Outcome(frame, to_csv(frame), "notfound", "", 0, FALSE)
    ELSE FoundVehicle(frame, file, mask, frame[First(mask)], to_datetime(typed))

\* Lines 120-146.  token is the exit-token box, typed the exit-time box.
\* exit: "idle" (no token), "notfound" (the warning), "error" (st.error),
\* "done" (the rent shown, the exit time stored and the file rewritten).
LookUp(frame, file, mask, typed) ==
    IF mask = {} THEN Outcome(frame, file, "notfound", "", 0, FALSE)
    ELSE FoundVehicle(frame, file, mask, frame[First(mask)], to_datetime(typed))

exit_handling(frame, file, token, typed) ==
    IF token = TXT("") THEN Outcome(frame, file, "idle", "", 0, FALSE)
    ELSE LookUp(frame, file, TokenMask(frame, token), typed)

\* Lines 154-156.
CountStatus(status) ==
    Cardinality({i \in 1..Len(layout) : layout[i].Status = status})

\* One execution of the script with the widgets' values image, token and
\* typed, the entry form submitted or not.
Script(image, submitted, form, token, typed) ==
    \E entry \in {add_vehicle(read_csv(csv), csv, submitted, form)} :
    \E exit \in {exit_handling(entry.vehicles, entry.csv, token, typed)} :
        /\ uploaded_image' = image
        /\ detected_type' = Detected(image)
        /\ exit_token' = token
        /\ exit_time' = IF exit.exit \in {"idle", "notfound"} THEN NONE ELSE typed
        /\ vehicles' = exit.vehicles
        /\ csv' = exit.csv
        /\ out' = [added          |-> entry.added,
                   exit           |-> exit.exit,
                   err            |-> exit.err,
                   rent           |-> exit.rent,
                   nan            |-> exit.nan,
                   total_vehicles |-> Len(exit.vehicles),
                   occupied_slots |-> CountStatus("Occupied"),
                   vacant_slots   |-> CountStatus("Vacant")]
        /\ UNCHANGED <<rates, layout>>

\* ----------------------------------------------------------------- inputs

\* Texts typed into the entry form and the exit boxes.  The entry time and
\* the exit time are minutes 0 and 1 in the wire format; the exit-time box
\* also takes a text that is not in the format.
TokenInputs     == {TXT(""), DEC(1), TXT("A")}
ExitTokenInputs == {TXT(""), DEC(1), FLT(1), TXT("A")}
TimeInputs      == {DMY(0), DMY(1)}
ExitTimeInputs  == TimeInputs \cup {TXT("abc")}

L_Model_T  == <<"M", "o", "d", "e", "l", "_", "T">>
L_carousel == <<"c", "a", "r", "o", "u", "s", "e", "l">>
L_tabby    == <<"t", "a", "b", "b", "y">>

\* An image that cannot be classified, and one whose third label has "car".
Images ==
    {[present |-> TRUE, ok |-> FALSE, top3 |-> <<>>],
     [present |-> TRUE, ok |-> TRUE,
      top3 |-> <<L_Model_T, L_tabby, L_carousel>>]}

NoForm ==
    [token |-> TXT(""), license_number |-> TXT(""), vehicle_type |-> TXT(""),
     entry_time |-> TXT(""), slot |-> TXT("")]

Forms ==
    {[token |-> t, license_number |-> TXT("KA01"), vehicle_type |-> v,
      entry_time |-> e, slot |-> TXT("A1")] :
        t \in TokenInputs, v \in TypeOptions(detected_type), e \in TimeInputs}

\* Line 132: the exit-time box opens with the current time and keeps what was
\* typed while it stays on the page.
ExitTimeBox == IF exit_time = NONE THEN TimeInputs ELSE {exit_time}

\* ---------------------------------------------------------------- actions

UploadImage ==
    \E image \in Images \cup {NoImage}, typed \in ExitTimeBox :
        /\ image # uploaded_image
        /\ Script(image, FALSE, NoForm, exit_token, typed)

SubmitEntry ==
    \E form \in Forms, typed \in ExitTimeBox :
        /\ Len(csv) < MaxRows
        /\ Script(uploaded_image, TRUE, form, exit_token, typed)

EnterExitToken ==
    \E token \in ExitTokenInputs, typed \in ExitTimeBox :
        /\ token # exit_token
        /\ Script(uploaded_image, FALSE, NoForm, token, typed)

EnterExitTime ==
    \E typed \in ExitTimeInputs :
        /\ exit_time # NONE
        /\ typed # exit_time
        /\ Script(uploaded_image, FALSE, NoForm, exit_token, typed)

\* The exit-time box set to any minute up to MaxDur.
EnterLateExitTime ==
    \E t \in 0..MaxDur :
        /\ exit_time # NONE
        /\ DMY(t) # exit_time
        /\ Script(uploaded_image, FALSE, NoForm, exit_token, DMY(t))

\* The page after the first run over the tables file, table and slots.
FirstRun(file, table, slots) ==
    /\ csv = file
    /\ vehicles = read_csv(file)
    /\ rates = table
    /\ layout = slots
    /\ uploaded_image = NoImage
    /\ detected_type = NONE
    /\ exit_token = TXT("")
    /\ exit_time = NONE
    /\ out = [added |-> FALSE, exit |-> "idle", err |-> "", rent |-> 0,
              nan |-> FALSE, total_vehicles |-> Len(file),
              occupied_slots |->
                  Cardinality({i \in 1..Len(slots) : slots[i].Status = "Occupied"}),
              vacant_slots |->
                  Cardinality({i \in 1..Len(slots) : slots[i].Status = "Vacant"})]

Slots ==
    <<[SlotId |-> TXT("A1"), Status |-> "Occupied"],
      [SlotId |-> TXT("A2"), Status |-> "Vacant"]>>

\* An empty ledger and one rate.
Init ==
    FirstRun(<<>>, <<[Type |-> TXT("Car"), RatePerHour |-> 20]>>, Slots)

Next == UploadImage \/ SubmitEntry \/ EnterExitToken \/ EnterExitTime

Spec == Init /\ [][Next]_vars

\* The ledger alone: no image is uploaded.
NextLedger == SubmitEntry \/ EnterExitToken \/ EnterExitTime

SpecLedger == Init /\ [][NextLedger]_vars

\* Billing: one parked vehicle of a rated type, one of several rate tables,
\* and exit times up to MaxDur minutes.
RateTables ==
    {<<[Type |-> TXT("Car"), RatePerHour |-> 20],
       [Type |-> TXT("Bike"), RatePerHour |-> 10]>>,
     <<[Type |-> TXT("Bike"), RatePerHour |-> 7],
       [Type |-> TXT("Car"), RatePerHour |-> 25],
       [Type |-> TXT("Bike"), RatePerHour |-> 0]>>}

InitBilling ==
    \E table \in RateTables, v \in {TXT("Car"), TXT("Bike")}, e \in TimeInputs :
        FirstRun(<<[Token |-> DEC(1), License |-> TXT("KA01"), Type |-> v,
                    EntryTime |-> e, ExitTime |-> TXT(""), Slot |-> TXT("A1")]>>,
                 table, Slots)

NextBilling == EnterExitToken \/ EnterLateExitTime

SpecBilling == InitBilling /\ [][NextBilling]_vars

\* ------------------------------------------------------------ properties

\* A record is open while its exit time is missing: the empty field in the
\* file, NaN or the empty text in the frame.
IsOpen(cell) == cell \in {NAN, TXT("")}

\* The open records the lookup of line 121 finds for a token.
findOpenByToken(frame, token) ==
    {i \in TokenMask(frame, token) : IsOpen(frame[i].ExitTime)}

\* A run in which the exit boxes were used and the entry form was not
\* submitted.
ExitSubmission == ~out.added /\ exit_token # TXT("")

\* C1: an entry whose token is empty, or is the token of a record still open,
\* is refused: no row is ever added to the ledger with such a token.
C1_InvalidEntryRefused ==
    [][Len(csv') > Len(csv) =>
        /\ csv'[Len(csv')].Token # TXT("")
        /\ \A i \in 1..Len(csv) :
              csv[i].ExitTime = TXT("") => csv[i].Token # csv'[Len(csv')].Token]_vars

\* C2: no two open records of the ledger carry the same token.
C2_OpenTokensUnique ==
    \A i, j \in 1..Len(csv) :
        (i # j /\ csv[i].ExitTime = TXT("") /\ csv[j].ExitTime = TXT(""))
            => csv[i].Token # csv[j].Token

\* C3: every record that has an exit time has exitTime >= entryTime.
C3_ExitNotBeforeEntry ==
    \A i \in 1..Len(csv) :
        (csv[i].ExitTime.k = "iso" /\ csv[i].EntryTime.k = "dmy")
            => csv[i].ExitTime.n >= csv[i].EntryTime.n

\* C4: after a successful exit for the token in the exit box with the time
\* in the exit-time box, the lookup of that token finds no open record (in
\* the frame, in the file's texts, and in the frame the file loads as), and
\* every record the exit closed stores exactly that time.
C4_RoundTrip ==
    out.exit = "done" =>
        /\ exit_time.k = "dmy"
        /\ TokenMask(vehicles, exit_token) # {}
        /\ findOpenByToken(vehicles, exit_token) = {}
        /\ \A i \in TokenMask(vehicles, exit_token) :
              /\ vehicles[i].ExitTime = TS(exit_time.n)
              /\ csv[i].ExitTime = ISO(exit_time.n)
        /\ \A i \in 1..Len(csv) :
              csv[i].Token = exit_token => csv[i].ExitTime # TXT("")
        /\ ~out.added => findOpenByToken(read_csv(csv), exit_token) = {}

C4_Witness ==
    /\ out.exit = "done"
    /\ ~out.added
    /\ Cardinality(TokenMask(vehicles, exit_token)) = 2

\* C5: an exit time, once set, is never changed, no record is ever removed,
\* and an exit submission for a token with no open record is answered with
\* the not-found outcome.
C5_ExitSetOnce ==
    [][/\ \A i \in 1..Len(csv) :
            /\ i <= Len(csv')
            /\ csv[i].ExitTime # TXT("") => csv'[i].ExitTime = csv[i].ExitTime
       /\ (ExitSubmission' /\ findOpenByToken(read_csv(csv), exit_token') = {})
            => out'.exit = "notfound"]_vars

C7_RentMonotone ==
    (out.exit = "done" /\ ~out.nan) =>
        LET row == vehicles[First(TokenMask(vehicles, exit_token))]
        IN  exit_time.n >= row.EntryTime.n =>
                /\ out.rent >= 0
                /\ \A x \in row.EntryTime.n..exit_time.n :
                      calculate_rent(row.Type, row.EntryTime, TS(x)).rent
                          <= out.rent

\* The example of the specification: Car at 20 an hour, 2.5 hours, 50.00.
C7_Witness ==
    /\ out.exit = "done"
    /\ exit_time = DMY(150)
    /\ out.rent = 5000
    /\ \E i \in TokenMask(vehicles, exit_token) :
          vehicles[i].Type = TXT("Car") /\ vehicles[i].EntryTime = DMY(0)

\* C8: an exit submission for an open record whose category has no rate ends
\* in an error and leaves the file as it was.
C8_UnknownCategoryRejected ==
    [][(/\ ExitSubmission'
        /\ \E i \in findOpenByToken(read_csv(csv), exit_token') :
              Len(RateValues(read_csv(csv)[i].Type)) = 0)
        => (out'.exit = "error" /\ csv' = csv)]_vars

\* C9: a failed classification gives Unknown, and the category suggested to
\* the entry form is one of Car, Bike, Truck, Unknown.
C9_ClassificationDegrades ==
    /\ (uploaded_image.present /\ ~uploaded_image.ok)
          => detected_type = TXT("Unknown")
    /\ (IF detected_type = NONE THEN TXT("Unknown") ELSE detected_type)
          \in {TXT("Car"), TXT("Bike"), TXT("Truck"), TXT("Unknown")}

====
